---- MODULE Spec2Model ----
(***************************************************************************)
(* Model of the regex-builder constructs                                   *)
(*   constructs/character-class.ts  (charClass, charRange, anyOf, negated, *)
(*                                   encodeCharacterClass)                 *)
(*   constructs/choice-of.ts        (choiceOf, encodeChoiceOf)             *)
(*                                                                         *)
(* A JavaScript string is a sequence of one-character TLA+ strings, so     *)
(* that length, split, join, comparison and escaping are computed and not  *)
(* assumed.  An optional field (escape?: string) is a sequence of length 0 *)
(* (undefined) or 1.  A call either returns a value or throws an Error     *)
(* with a message; both outcomes are values of the form built by Return    *)
(* and Throw.                                                              *)
(***************************************************************************)
EXTENDS Naturals, Sequences, FiniteSets

VARIABLES stack, call, choice

vars == <<stack, call, choice>>

-----------------------------------------------------------------------------
(* Bounds of the model.                                                    *)

\* longest string handed to anyOf / charRange
MaxStrLen == 2
\* most members (escape, chars, ranges) over all the class values a caller
\* holds at once as operands of a pending call; a class without members
\* counts as one
MaxWeight == 3
\* most alternatives handed to choiceOf
MaxAlts == 2
\* longest array handed to choiceOf as one alternative
MaxSeqLen == 2

\* the characters (UTF-16 code units) strings are made of
Alphabet == {"-", "\\", "]", "^", "a"}

\* the characters the bounds of charRange are made of
RangeAlphabet == {"-", "a"}

\* the arrays (in particular the strings) of at most n elements of A
StringsOver(A, n) == UNION {[1..k -> A] : k \in 0..n}

-----------------------------------------------------------------------------
(* JavaScript primitives used by the constructs.                           *)

\* UTF-16 code unit of a character: what < and > on strings compare
CharCode(c) ==
  CASE c = "-" -> 45
    [] c = "\\" -> 92
    [] c = "]" -> 93
    [] c = "^" -> 94
    [] c = "a" -> 97

\* s > t on JavaScript strings: lexicographic by code unit
RECURSIVE StrGreater(_, _)
StrGreater(s, t) ==
  IF s = <<>> THEN FALSE
  ELSE IF t = <<>> THEN TRUE
  ELSE IF CharCode(Head(s)) # CharCode(Head(t))
       THEN CharCode(Head(s)) > CharCode(Head(t))
       ELSE StrGreater(Tail(s), Tail(t))

\* array.map(...).flat() and array.join(''): concatenation of the parts
RECURSIVE Flat(_)
Flat(ss) == IF ss = <<>> THEN <<>> ELSE Head(ss) \o Flat(Tail(ss))

\* array.join(sep)
RECURSIVE Join(_, _)
Join(ss, sep) ==
  IF ss = <<>> THEN <<>>
  ELSE IF Len(ss) = 1 THEN ss[1]
  ELSE ss[1] \o sep \o Join(Tail(ss), sep)

\* array.filter(c is neither the hyphen nor the caret)
RECURSIVE FilterOther(_)
FilterOther(xs) ==
  IF xs = <<>> THEN <<>>
  ELSE IF Head(xs) # <<"-">> /\ Head(xs) # <<"^">>
       THEN <<Head(xs)>> \o FilterOther(Tail(xs))
       ELSE FilterOther(Tail(xs))

\* array.includes(x)
Includes(xs, x) == \E i \in 1..Len(xs) : xs[i] = x

\* a call that returned v / a call that threw new Error(msg)
Return(v) == [thrown |-> FALSE, error |-> "", value |-> <<v>>]
Throw(msg) == [thrown |-> TRUE, error |-> msg, value |-> <<>>]

-----------------------------------------------------------------------------
(* character-class.ts                                                      *)

\* the messages of the Errors thrown (their backquotes left out)
ErrNegatedOperand == "charClass should receive only non-negated character classes"
ErrRangeStart == "charRange should receive only single character start string"
ErrRangeEnd == "charRange should receive only single character end string"
ErrRangeOrder == "start should be before or equal to end"
ErrAnyOfEmpty == "anyOf should received at least one character"
ErrEmptyClass == "Character class should contain at least one character or character range"

Shorthand(type, escape) ==
  [type |-> type, escape |-> <<escape>>, chars |-> <<>>, ranges |-> <<>>,
   isNegated |-> FALSE]

any == Shorthand("any", <<".">>)
digit == Shorthand("digit", <<"\\", "d">>)
nonDigit == Shorthand("nonDigit", <<"\\", "D">>)
word == Shorthand("word", <<"\\", "w">>)
nonWord == Shorthand("nonWord", <<"\\", "W">>)
whitespace == Shorthand("whitespace", <<"\\", "s">>)
nonWhitespace == Shorthand("nonWhitespace", <<"\\", "S">>)

Singletons == {any, digit, nonDigit, word, nonWord, whitespace, nonWhitespace}

\* the pre-built classes the caller of the model uses
UsedSingletons == {any, digit}

getAllChars(characterClass) ==
  IF characterClass.escape = <<>>
  THEN characterClass.chars
  ELSE <<characterClass.escape[1]>> \o characterClass.chars

\* text.replace: every ] and every backslash gets a backslash in front
RECURSIVE escapeForCharacterClass(_)
escapeForCharacterClass(text) ==
  IF text = <<>> THEN <<>>
  ELSE (IF Head(text) \in {"]", "\\"} THEN <<"\\", Head(text)>> ELSE <<Head(text)>>)
       \o escapeForCharacterClass(Tail(text))

\* charClass that merges the chars arrays and forgets the operands' escapes
charClassDropsShorthand(elements) ==
  IF \E i \in 1..Len(elements) : elements[i].isNegated
  THEN Throw(ErrNegatedOperand)
  ELSE IF Len(elements) = 1
  THEN Return(elements[1])
  ELSE Return([type |-> "nonWhitespace",
               escape |-> <<>>,
               chars |-> Flat([i \in 1..Len(elements) |-> elements[i].chars]),
               ranges |-> Flat([i \in 1..Len(elements) |-> elements[i].ranges]),
               isNegated |-> FALSE])

\* charClass with the single-operand short-circuit ahead of the negation check
charClassIdentityFirst(elements) ==
  IF Len(elements) = 1
  THEN Return(elements[1])
  ELSE IF \E i \in 1..Len(elements) : elements[i].isNegated
  THEN Throw(ErrNegatedOperand)
  ELSE Return([type |-> "nonWhitespace",
               escape |-> <<>>,
               chars |-> Flat([i \in 1..Len(elements) |-> getAllChars(elements[i])]),
               ranges |-> Flat([i \in 1..Len(elements) |-> elements[i].ranges]),
               isNegated |-> FALSE])

\* charClass that carries the first operand's escape over as the escape and
\* merges the chars arrays only
charClassKeepsEscape(elements) ==
  IF \E i \in 1..Len(elements) : elements[i].isNegated
  THEN Throw(ErrNegatedOperand)
  ELSE IF Len(elements) = 1
  THEN Return(elements[1])
  ELSE Return([type |-> "nonWhitespace",
               escape |-> IF Len(elements) = 0 THEN <<>> ELSE elements[1].escape,
               chars |-> Flat([i \in 1..Len(elements) |-> elements[i].chars]),
               ranges |-> Flat([i \in 1..Len(elements) |-> elements[i].ranges]),
               isNegated |-> FALSE])

charClass(elements) ==
  IF \E i \in 1..Len(elements) : elements[i].isNegated
  THEN Throw(ErrNegatedOperand)
  ELSE IF Len(elements) = 1
  THEN Return(elements[1])
  ELSE Return([type |-> "nonWhitespace",
               escape |-> <<>>,
               chars |-> Flat([i \in 1..Len(elements) |-> getAllChars(elements[i])]),
               ranges |-> Flat([i \in 1..Len(elements) |-> elements[i].ranges]),
               isNegated |-> FALSE])

\* charRange that rejects equal bounds (>= for >)
charRangeStrict(start, end) ==
  IF Len(start) # 1 THEN Throw(ErrRangeStart)
  ELSE IF Len(end) # 1 THEN Throw(ErrRangeEnd)
  ELSE IF StrGreater(start, end) \/ start = end THEN Throw(ErrRangeOrder)
  ELSE Return([type |-> "charRange",
               escape |-> <<>>,
               chars |-> <<>>,
               ranges |-> <<[start |-> start, end |-> end]>>,
               isNegated |-> FALSE])

charRange(start, end) ==
  IF Len(start) # 1 THEN Throw(ErrRangeStart)
  ELSE IF Len(end) # 1 THEN Throw(ErrRangeEnd)
  ELSE IF StrGreater(start, end) THEN Throw(ErrRangeOrder)
  ELSE Return([type |-> "charRange",
               escape |-> <<>>,
               chars |-> <<>>,
               ranges |-> <<[start |-> start, end |-> end]>>,
               isNegated |-> FALSE])

\* anyOf that forgets to escape its characters
anyOfUnescaped(characters) ==
  LET chars == [i \in 1..Len(characters) |-> <<characters[i]>>]
  IN IF Len(chars) = 0
     THEN Throw(ErrAnyOfEmpty)
     ELSE Return([type |-> "anyOf",
                  escape |-> <<>>,
                  chars |-> chars,
                  ranges |-> <<>>,
                  isNegated |-> FALSE])

anyOf(characters) ==
  LET chars == [i \in 1..Len(characters) |-> escapeForCharacterClass(<<characters[i]>>)]
  IN IF Len(chars) = 0
     THEN Throw(ErrAnyOfEmpty)
     ELSE Return([type |-> "anyOf",
                  escape |-> <<>>,
                  chars |-> chars,
                  ranges |-> <<>>,
                  isNegated |-> FALSE])

negated(element) ==
  Return([type |-> "negated",
          escape |-> <<>>,
          chars |-> element.chars,
          ranges |-> element.ranges,
          isNegated |-> ~element.isNegated])

\* the template with the hyphen moved to the first place instead of the last
BracketPatternHyphenFirst(this) ==
  LET allChars == getAllChars(this)
      hyphen == IF Includes(allChars, <<"-">>) THEN <<"-">> ELSE <<>>
      caret == IF Includes(allChars, <<"^">>) THEN <<"^">> ELSE <<>>
      otherChars == Flat(FilterOther(allChars))
      ranges == Flat([i \in 1..Len(this.ranges) |->
                        this.ranges[i].start \o <<"-">> \o this.ranges[i].end])
      negation == IF this.isNegated THEN <<"^">> ELSE <<>>
  IN <<"[">> \o negation \o hyphen \o ranges \o otherChars \o caret \o <<"]">>

\* the template literal [ negation ranges otherChars caret hyphen ], before the fix-up
BracketPattern(this) ==
  LET allChars == getAllChars(this)
      hyphen == IF Includes(allChars, <<"-">>) THEN <<"-">> ELSE <<>>
      caret == IF Includes(allChars, <<"^">>) THEN <<"^">> ELSE <<>>
      otherChars == Flat(FilterOther(allChars))
      ranges == Flat([i \in 1..Len(this.ranges) |->
                        this.ranges[i].start \o <<"-">> \o this.ranges[i].end])
      negation == IF this.isNegated THEN <<"^">> ELSE <<>>
  IN <<"[">> \o negation \o ranges \o otherChars \o caret \o hyphen \o <<"]">>

\* the pattern [^-] is replaced by [\^-]
FixUp(pattern) ==
  IF pattern = <<"[", "^", "-", "]">> THEN <<"[", "\\", "^", "-", "]">> ELSE pattern

CharClassResult(pattern) ==
  [_tag |-> "EncodeResult", type |-> "charClass", precedence |-> "atom",
   pattern |-> pattern]

encodeCharacterClass(this) ==
  IF this.escape = <<>> /\ Len(this.chars) = 0 /\ Len(this.ranges) = 0
  THEN Throw(ErrEmptyClass)
  ELSE IF this.escape # <<>> /\ Len(this.chars) = 0 /\ Len(this.ranges) = 0
          /\ ~this.isNegated
  THEN Return(CharClassResult(this.escape[1]))
  ELSE Return(CharClassResult(FixUp(BracketPattern(this))))

-----------------------------------------------------------------------------
(* choice-of.ts, and the encoder it calls.                                 *)
(*                                                                         *)
(* A RegexElement is a string or a construct; a RegexSequence is one       *)
(* element or an array of elements.  The two TypeScript unions are tagged  *)
(* records here: StringElement / ConstructElement, One / Many.             *)

StringElement(text) == [kind |-> "string", text |-> text]
ConstructElement(construct) == [kind |-> "construct", construct |-> construct]

One(element) == [isArray |-> FALSE, item |-> element]
Many(elements) == [isArray |-> TRUE, items |-> elements]

ErrNoAlternative == "choiceOf should receive at least one alternative"

\* utils/elements.ts
ensureArray(sequence) == IF sequence.isArray THEN sequence.items ELSE <<sequence.item>>

choiceOf(alternatives) ==
  IF Len(alternatives) = 0
  THEN Throw(ErrNoAlternative)
  ELSE Return([type |-> "choiceOf",
               alternatives |-> [i \in 1..Len(alternatives) |->
                                   ensureArray(alternatives[i])]])

\* the first call of a left-to-right map that threw
FirstThrown(results) ==
  LET i == CHOOSE j \in 1..Len(results) :
             results[j].thrown /\ \A h \in 1..(j - 1) : ~results[h].thrown
  IN results[i]

AnyThrown(results) == \E i \in 1..Len(results) : results[i].thrown

RECURSIVE encodeChoiceOf(_), encodeSequence(_), encodeElement(_)

\* a one-character string is an atom; a construct encodes itself
encodeElement(element) ==
  IF element.kind = "string"
  THEN Return([precedence |-> "atom", pattern |-> element.text])
  ELSE IF element.construct.type = "choiceOf"
  THEN encodeChoiceOf(element.construct)
  ELSE encodeCharacterClass(element.construct)

\* a child looser than a sequence is wrapped in a non-capturing group
wrapInGroup(fragment) ==
  IF fragment.precedence = "disjunction"
  THEN <<"(", "?", ":">> \o fragment.pattern \o <<")">>
  ELSE fragment.pattern

\* encoder/encoder.ts
encodeSequence(elements) ==
  LET encoded == [i \in 1..Len(elements) |-> encodeElement(elements[i])]
  IN IF AnyThrown(encoded) THEN FirstThrown(encoded)
     ELSE IF Len(elements) = 0
     THEN Return([precedence |-> "atom", pattern |-> <<>>])
     ELSE IF Len(elements) = 1
     THEN encoded[1]
     ELSE Return([precedence |-> "sequence",
                  pattern |-> Flat([i \in 1..Len(encoded) |->
                                      wrapInGroup(encoded[i].value[1])])])

\* encodeChoiceOf without the single-alternative short-circuit
encodeChoiceOfNoPassthrough(this) ==
  LET encodedAlternatives ==
        [i \in 1..Len(this.alternatives) |-> encodeSequence(this.alternatives[i])]
  IN IF AnyThrown(encodedAlternatives) THEN FirstThrown(encodedAlternatives)
     ELSE Return([precedence |-> "disjunction",
                  pattern |-> Join([i \in 1..Len(encodedAlternatives) |->
                                      encodedAlternatives[i].value[1].pattern],
                                   <<"|">>)])

\* encodeChoiceOf that wraps an alternative looser than a sequence in a group
encodeChoiceOfWrapping(this) ==
  LET encodedAlternatives ==
        [i \in 1..Len(this.alternatives) |-> encodeSequence(this.alternatives[i])]
  IN IF AnyThrown(encodedAlternatives) THEN FirstThrown(encodedAlternatives)
     ELSE IF Len(encodedAlternatives) = 1
     THEN encodedAlternatives[1]
     ELSE Return([precedence |-> "disjunction",
                  pattern |-> Join([i \in 1..Len(encodedAlternatives) |->
                                      wrapInGroup(encodedAlternatives[i].value[1])],
                                   <<"|">>)])

encodeChoiceOf(this) ==
  LET encodedAlternatives ==
        [i \in 1..Len(this.alternatives) |-> encodeSequence(this.alternatives[i])]
  IN IF AnyThrown(encodedAlternatives) THEN FirstThrown(encodedAlternatives)
     ELSE IF Len(encodedAlternatives) = 1
     THEN encodedAlternatives[1]
     ELSE Return([precedence |-> "disjunction",
                  pattern |-> Join([i \in 1..Len(encodedAlternatives) |->
                                      encodedAlternatives[i].value[1].pattern],
                                   <<"|">>)])

-----------------------------------------------------------------------------
(* The caller: builds class values bottom-up, holding the operands of the  *)
(* call it is about to make on a stack.  A throwing call unwinds the whole *)
(* expression.                                                             *)

\* the call made last: its name, its string arguments, the number of class
\* values it took from the stack, and its outcome (for encode the fragment;
\* a class a builder returned is on top of the stack)
NoCall ==
  [op |-> "none", strs |-> <<>>, k |-> 0, thrown |-> FALSE, error |-> "",
   value |-> <<>>]

Call(op, strs, k, res) ==
  [op |-> op, strs |-> strs, k |-> k, thrown |-> res.thrown, error |-> res.error,
   value |-> res.value]

Members(c) == Len(c.escape) + Len(c.chars) + Len(c.ranges)

Weight(c) == IF Members(c) = 0 THEN 1 ELSE Members(c)

RECURSIVE TotalWeight(_)
TotalWeight(cs) == IF cs = <<>> THEN 0 ELSE Weight(Head(cs)) + TotalWeight(Tail(cs))

\* the stack after a call that consumed the top k values
Land(k, res) ==
  IF res.thrown THEN <<>>
  ELSE SubSeq(stack, 1, Len(stack) - k) \o res.value

Fits(k, res) ==
  res.thrown \/ TotalWeight(Land(k, res)) <= MaxWeight

\* the arguments of the last choiceOf call and the construct it returned
NoChoice == [alternatives |-> <<>>, built |-> <<>>]

Init ==
  /\ stack = <<>>
  /\ call = NoCall
  /\ choice = NoChoice

UseSingleton ==
  \E c \in UsedSingletons :
    /\ Fits(0, Return(c))
    /\ stack' = Land(0, Return(c))
    /\ call' = Call("singleton", <<>>, 0, Return(c))
    /\ UNCHANGED choice

\* The strings worth trying: a longer one cannot be held, and a throwing call
\* leaves the same state whatever the caller held before it.
Room == MaxWeight - TotalWeight(stack)

StringArgs(A) ==
  StringsOver(A, IF stack = <<>> \/ Room >= MaxStrLen THEN MaxStrLen ELSE Room)

AnyOf ==
  \E s \in StringArgs(Alphabet) :
    LET res == anyOf(s) IN
    /\ Fits(0, res)
    /\ stack' = Land(0, res)
    /\ call' = Call("anyOf", <<s>>, 0, res)
    /\ UNCHANGED choice

CharRange ==
  \E start, end \in StringArgs(RangeAlphabet) :
    LET res == charRange(start, end) IN
    /\ Fits(0, res)
    /\ stack' = Land(0, res)
    /\ call' = Call("charRange", <<start, end>>, 0, res)
    /\ UNCHANGED choice

CharClass ==
  \E k \in 0..Len(stack) :
    LET elements == SubSeq(stack, Len(stack) - k + 1, Len(stack))
        res == charClass(elements) IN
    /\ Fits(k, res)
    /\ stack' = Land(k, res)
    /\ call' = Call("charClass", <<>>, k, res)
    /\ UNCHANGED choice

Negated ==
  /\ stack # <<>>
  /\ LET element == stack[Len(stack)]
         res == negated(element) IN
     /\ stack' = Land(1, res)
     /\ call' = Call("negated", <<>>, 1, res)
  /\ UNCHANGED choice

Encode ==
  /\ stack # <<>>
  /\ LET this == stack[Len(stack)]
         res == encodeCharacterClass(this) IN
     /\ stack' = (IF res.thrown THEN <<>> ELSE stack)
     /\ call' = Call("encode", <<>>, 1, res)
  /\ UNCHANGED choice

Next == UseSingleton \/ AnyOf \/ CharRange \/ CharClass \/ Negated \/ Encode

Spec == Init /\ [][Next]_vars

-----------------------------------------------------------------------------
(* The caller of choiceOf: hands it up to MaxAlts alternatives made of the *)
(* elements of ElementPool, and encodes what it returned.  The calls share *)
(* no state, so one behaviour builds one alternation.                      *)

NestedChoice ==
  choiceOf(<<One(StringElement(<<"a">>)), One(ConstructElement(digit))>>).value[1]

ElementPool ==
  {StringElement(<<"a">>), ConstructElement(digit), ConstructElement(NestedChoice)}

SequencePool ==
  {One(e) : e \in ElementPool}
    \cup {Many(es) : es \in StringsOver(ElementPool, MaxSeqLen)}

ChoiceOf ==
  /\ choice.built = <<>>
  /\ \E n \in 0..MaxAlts : \E alternatives \in [1..n -> SequencePool] :
       LET res == choiceOf(alternatives) IN
       /\ choice' = [alternatives |-> alternatives, built |-> res.value]
       /\ call' = Call("choiceOf", <<>>, Len(alternatives), res)
  /\ UNCHANGED stack

EncodeChoice ==
  /\ choice.built # <<>>
  /\ LET res == encodeChoiceOf(choice.built[1]) IN
     /\ call' = Call("encodeChoiceOf", <<>>, 1, res)
     /\ choice' = (IF res.thrown THEN NoChoice ELSE choice)
  /\ UNCHANGED stack

NextChoice == ChoiceOf \/ EncodeChoice

SpecChoice == Init /\ [][NextChoice]_vars

-----------------------------------------------------------------------------
(* Properties.                                                             *)

\* the class value the last call returned, or the one encode was called on
Top == stack[Len(stack)]

\* the outcome of the last call
Outcome == [thrown |-> call.thrown, error |-> call.error, value |-> call.value]

\* C1: encoding a choiceOf of exactly one alternative X returns exactly what
\* the sequence encoder returns for X: same pattern, same precedence tag, no
\* separator added and no group wrapped around it.
C1_SingleAlternativePassthrough ==
  (call.op = "encodeChoiceOf" /\ Len(choice.alternatives) = 1)
    => Outcome = encodeSequence(ensureArray(choice.alternatives[1]))

\* C1 witness: the one alternative is an array holding a nested alternation
\* and a string, so the sequence encoder has wrapped a child and tagged the
\* result sequence, and the alternation has passed that through.
C1_Witness ==
  /\ call.op = "encodeChoiceOf"
  /\ choice.alternatives
       = <<Many(<<ConstructElement(NestedChoice), StringElement(<<"a">>)>>)>>
  /\ ~call.thrown
  /\ call.value[1].precedence = "sequence"
  /\ call.value[1].pattern = <<"(", "?", ":", "a", "|", "\\", "d", ")", "a">>

\* the sequence-encoded patterns of the alternatives handed to choiceOf
RECURSIVE AlternativePatterns(_)
AlternativePatterns(alternatives) ==
  IF alternatives = <<>> THEN <<>>
  ELSE <<encodeSequence(ensureArray(Head(alternatives))).value[1].pattern>>
         \o AlternativePatterns(Tail(alternatives))

\* pattern is the patterns ps, in order and each as it is, with exactly one
\* separator | between neighbours
RECURSIVE Separated(_, _)
Separated(pattern, ps) ==
  IF Len(ps) = 1 THEN pattern = ps[1]
  ELSE /\ Len(pattern) > Len(ps[1])
       /\ SubSeq(pattern, 1, Len(ps[1])) = ps[1]
       /\ pattern[Len(ps[1]) + 1] = "|"
       /\ Separated(SubSeq(pattern, Len(ps[1]) + 2, Len(pattern)), Tail(ps))

\* C2: encoding a choiceOf of n >= 2 alternatives yields a fragment tagged
\* disjunction whose pattern is the alternatives' sequence-encoded patterns
\* in the given order, each one as it is (not wrapped in a group), with one
\* separator | between neighbours: n-1 separators.
C2_AlternativesJoined ==
  (call.op = "encodeChoiceOf" /\ Len(choice.alternatives) >= 2)
    => /\ ~call.thrown
       /\ call.value[1].precedence = "disjunction"
       /\ Separated(call.value[1].pattern, AlternativePatterns(choice.alternatives))

\* C2 witness: two alternatives, the first one itself a disjunction (a
\* nested alternation alone), joined without a group around it.
C2_Witness ==
  /\ call.op = "encodeChoiceOf"
  /\ choice.alternatives
       = <<One(ConstructElement(NestedChoice)), Many(<<StringElement(<<"a">>)>>)>>
  /\ ~call.thrown
  /\ call.value[1].precedence = "disjunction"
  /\ call.value[1].pattern = <<"a", "|", "\\", "d", "|", "a">>

\* the characters of s other than the caret and the hyphen, in order
RECURSIVE WithoutCaretAndHyphen(_)
WithoutCaretAndHyphen(s) ==
  IF s = <<>> THEN <<>>
  ELSE IF Head(s) \in {"^", "-"} THEN WithoutCaretAndHyphen(Tail(s))
  ELSE <<Head(s)>> \o WithoutCaretAndHyphen(Tail(s))

Occurs(c, s) == \E i \in 1..Len(s) : s[i] = c

\* C3 as stated: for every non-empty s, anyOf(s) encodes to an atom whose
\* pattern is a bracket expression holding exactly the escaped characters of
\* s, in the order they occur in s.
C3_AnyOfInOrder ==
  (call.op = "anyOf" /\ Len(call.strs[1]) > 0)
    => /\ ~call.thrown
       /\ LET res == encodeCharacterClass(Top) IN
          /\ ~res.thrown
          /\ res.value[1].precedence = "atom"
          /\ res.value[1].pattern
               = <<"[">> \o escapeForCharacterClass(call.strs[1]) \o <<"]">>

\* C3 (amended): for every non-empty s, anyOf(s) encodes to an atom whose
\* pattern is a bracket expression holding the escaped characters of s other
\* than ^ and - in the order they occur in s, then one ^ if s has a ^, then
\* one - if s has a -; when s is made of ^ and - only and has both, the
\* pattern is [\^-].
C3_AnyOfRelocated ==
  (call.op = "anyOf" /\ Len(call.strs[1]) > 0)
    => /\ ~call.thrown
       /\ LET s == call.strs[1]
              res == encodeCharacterClass(Top) IN
          /\ ~res.thrown
          /\ res.value[1].precedence = "atom"
          /\ res.value[1].pattern
               = IF WithoutCaretAndHyphen(s) = <<>> /\ Occurs("^", s) /\ Occurs("-", s)
                 THEN <<"[", "\\", "^", "-", "]">>
                 ELSE <<"[">> \o escapeForCharacterClass(WithoutCaretAndHyphen(s))
                        \o (IF Occurs("^", s) THEN <<"^">> ELSE <<>>)
                        \o (IF Occurs("-", s) THEN <<"-">> ELSE <<>>)
                        \o <<"]">>

\* C3 witness: anyOf('-]') returned; the ] is escaped and the hyphen has
\* moved behind it.
C3_Witness ==
  /\ call.op = "anyOf"
  /\ call.strs = << <<"-", "]">> >>
  /\ ~call.thrown
  /\ encodeCharacterClass(Top).value[1].pattern = <<"[", "\\", "]", "-", "]">>

\* C4: charRange(start, end) returns exactly when both bounds have one
\* character and start does not sort after end, and the class then encodes
\* to the atom [start-end]; it throws the invalid-argument error when a
\* bound has not exactly one character, and the invalid-order error when
\* both have one and start sorts after end.
C4_CharRange ==
  call.op = "charRange"
    => LET start == call.strs[1]
           end == call.strs[2]
           single == Len(start) = 1 /\ Len(end) = 1
           ordered == CharCode(start[1]) <= CharCode(end[1])
       IN /\ ~call.thrown <=> (single /\ ordered)
          /\ ~single => call.thrown /\ call.error \in {ErrRangeStart, ErrRangeEnd}
          /\ (single /\ ~ordered) => call.thrown /\ call.error = ErrRangeOrder
          /\ ~call.thrown
               => encodeCharacterClass(Top)
                    = Return(CharClassResult(<<"[", start[1], "-", end[1], "]">>))

\* C4 witness: charRange('-', 'a') returned a class.
C4_Witness ==
  /\ call.op = "charRange"
  /\ call.strs = << <<"-">>, <<"a">> >>
  /\ ~call.thrown
  /\ Top.ranges = <<[start |-> <<"-">>, end |-> <<"a">>]>>

\* the operands of the charClass call a step makes: the top k held values
Operands(k) == SubSeq(stack, Len(stack) - k + 1, Len(stack))

\* C5: charClass throws whenever an operand is negated, with one operand as
\* with several; when it returns, no operand was negated and the class it
\* returns is not negated.
C5_NegatedOperandRejected ==
  [][call'.op = "charClass"
       => LET elements == Operands(call'.k) IN
          /\ (\E i \in 1..Len(elements) : elements[i].isNegated)
               => call'.thrown /\ call'.error = ErrNegatedOperand
          /\ ~call'.thrown
               => /\ \A i \in 1..Len(elements) : ~elements[i].isNegated
                  /\ ~stack'[Len(stack')].isNegated]_vars

\* C5 witness: charClass was called with exactly one operand, a negated one,
\* and threw.
C5_Witness ==
  /\ call.op = "charClass"
  /\ call.k = 1
  /\ call.thrown
  /\ call.error = ErrNegatedOperand

\* what a class holds: the set of its characters (shorthand included) and
\* the set of its ranges
Content(c) ==
  [chars |-> {getAllChars(c)[i] : i \in 1..Len(getAllChars(c))},
   ranges |-> {c.ranges[i] : i \in 1..Len(c.ranges)}]

Merge(a, b) == charClass(<<a, b>>).value[1]

\* C6: for all non-negated classes a, b, c the builders returned,
\* charClass(a, b) and charClass(b, a) hold the same characters and ranges,
\* and so do charClass(charClass(a, b), c) and charClass(a, charClass(b, c)).
C6_MergeContent ==
  \A i, j, h \in 1..Len(stack) :
    LET a == stack[i]
        b == stack[j]
        c == stack[h]
    IN (~a.isNegated /\ ~b.isNegated /\ ~c.isNegated)
         => /\ Content(Merge(a, b)) = Content(Merge(b, a))
            /\ Content(Merge(Merge(a, b), c)) = Content(Merge(a, Merge(b, c)))

\* C6 witness: the caller holds a shorthand class and, on top, the class a
\* charClass call of two operands returned; merging the two either way gives
\* different orders.
C6_Witness ==
  /\ call.op = "charClass"
  /\ call.k = 2
  /\ ~call.thrown
  /\ Len(stack) = 2
  /\ stack[1] = digit
  /\ Len(Top.chars) = 2
  /\ Merge(stack[1], Top).chars # Merge(Top, stack[1]).chars

\* C7: every negated class with at least one character, range or shorthand
\* encodes to a pattern that starts with [^ and ends with ].
C7_NegationLeads ==
  (call.op = "encode" /\ ~call.thrown /\ Top.isNegated /\ Members(Top) >= 1)
    => LET pattern == call.value[1].pattern IN
       /\ pattern[1] = "["
       /\ pattern[2] = "^"
       /\ pattern[Len(pattern)] = "]"

\* C8: a negated class whose only content is the character - does not
\* encode to [^-]: every hyphen of the pattern has a backslash right before
\* it.
C8_NegatedHyphenEscaped ==
  (/\ call.op = "encode"
   /\ ~call.thrown
   /\ Top.isNegated
   /\ Top.escape = <<>>
   /\ Top.ranges = <<>>
   /\ Top.chars # <<>>
   /\ \A i \in 1..Len(Top.chars) : Top.chars[i] = <<"-">>)
    => LET pattern == call.value[1].pattern IN
       /\ pattern # <<"[", "^", "-", "]">>
       /\ \A i \in 1..Len(pattern) :
            pattern[i] = "-" => (i > 1 /\ pattern[i - 1] = "\\")

\* C9: every class a builder returned (called with at least one operand, on
\* values builders returned) has an escape, a character or a range, and
\* encode never throws the empty-class error on it.
C9_NeverEmpty ==
  /\ (/\ call.op \in {"singleton", "anyOf", "charRange", "charClass", "negated"}
      /\ ~(call.op = "charClass" /\ call.k = 0)
      /\ ~call.thrown)
       => Members(Top) >= 1
  /\ ~(call.op = "encode" /\ call.thrown /\ call.error = ErrEmptyClass)

\* the ranges as start-end, in list order
RECURSIVE RangesText(_)
RangesText(rs) ==
  IF rs = <<>> THEN <<>>
  ELSE Head(rs).start \o <<"-">> \o Head(rs).end \o RangesText(Tail(rs))

\* the elements other than the caret and the hyphen, in order, joined
RECURSIVE OthersText(_)
OthersText(cs) ==
  IF cs = <<>> THEN <<>>
  ELSE IF Head(cs) = <<"^">> \/ Head(cs) = <<"-">> THEN OthersText(Tail(cs))
  ELSE Head(cs) \o OthersText(Tail(cs))

\* [ caret-if-negated  ranges  others  ^-if-present  --if-present ]
OrderedPattern(c) ==
  LET all == c.escape \o c.chars IN
  <<"[">> \o (IF c.isNegated THEN <<"^">> ELSE <<>>)
    \o RangesText(c.ranges)
    \o OthersText(all)
    \o (IF Occurs(<<"^">>, all) THEN <<"^">> ELSE <<>>)
    \o (IF Occurs(<<"-">>, all) THEN <<"-">> ELSE <<>>)
    \o <<"]">>

\* encode took the general path: the class is not a bare non-negated
\* shorthand
GeneralPath ==
  /\ call.op = "encode"
  /\ ~call.thrown
  /\ ~(Top.escape # <<>> /\ Top.chars = <<>> /\ Top.ranges = <<>> /\ ~Top.isNegated)

\* C10 as stated: on the general path the pattern is, in this order, [, the
\* negation caret if negated, the ranges, the other characters, one ^ if
\* there is a ^, one - if there is a -, and ]; tagged atom.
C10_BodyOrder ==
  GeneralPath
    => /\ call.value[1].precedence = "atom"
       /\ call.value[1].pattern = OrderedPattern(Top)

\* C10 (amended): as stated, except that when the pattern so assembled is
\* exactly [^-] (a negated class holding only -, or a non-negated one
\* holding only ^ and -) the pattern returned is [\^-].
C10_BodyOrderWithFixUp ==
  GeneralPath
    => /\ call.value[1].precedence = "atom"
       /\ call.value[1].pattern
            = IF OrderedPattern(Top) = <<"[", "^", "-", "]">>
              THEN <<"[", "\\", "^", "-", "]">>
              ELSE OrderedPattern(Top)

\* C10 witness: a negated class holding a range, a caret and a hyphen was
\* encoded: the negation caret leads, the range follows, the caret and the
\* hyphen close the body.
C10_Witness ==
  /\ GeneralPath
  /\ Top.isNegated
  /\ Top.ranges # <<>>
  /\ Occurs(<<"^">>, Top.chars)
  /\ Occurs(<<"-">>, Top.chars)
  /\ call.value[1].pattern = <<"[", "^", "-", "-", "a", "^", "-", "]">>

\* the operands' characters, each operand's shorthand before its literals,
\* in operand order
RECURSIVE OperandChars(_)
OperandChars(elements) ==
  IF elements = <<>> THEN <<>>
  ELSE Head(elements).escape \o Head(elements).chars \o OperandChars(Tail(elements))

\* the operands' ranges in operand order
RECURSIVE OperandRanges(_)
OperandRanges(elements) ==
  IF elements = <<>> THEN <<>>
  ELSE Head(elements).ranges \o OperandRanges(Tail(elements))

\* C11: charClass with exactly one non-negated operand returns that operand
\* unchanged (a bare shorthand still encodes to its token); with two or
\* more non-negated operands it returns a new non-negated class without
\* escape whose chars are the operands' characters (shorthand, then
\* literals) concatenated in operand order, duplicates kept, and whose
\* ranges are the operands' ranges concatenated in operand order.
C11_MergeResult ==
  [][(call'.op = "charClass" /\ ~call'.thrown)
       => LET elements == Operands(call'.k)
              result == stack'[Len(stack')] IN
          /\ Len(elements) = 1
               => /\ result = elements[1]
                  /\ (result.escape # <<>> /\ result.chars = <<>>
                        /\ result.ranges = <<>>)
                       => encodeCharacterClass(result)
                            = Return(CharClassResult(elements[1].escape[1]))
          /\ Len(elements) >= 2
               => /\ ~result.isNegated
                  /\ result.escape = <<>>
                  /\ result.chars = OperandChars(elements)
                  /\ result.ranges = OperandRanges(elements)]_vars

\* C11 witness: charClass(digit, digit) returned a class without escape that
\* holds the shorthand token twice among its chars.
C11_Witness ==
  /\ call.op = "charClass"
  /\ call.k = 2
  /\ ~call.thrown
  /\ Top.escape = <<>>
  /\ Top.chars = << <<"\\", "d">>, <<"\\", "d">> >>
  /\ Top.ranges = <<>>
  /\ ~Top.isNegated

\* C12: a non-negated class built by anyOf, charRange and charClass never
\* encodes to a bracket expression whose first body character is a bare ^.
C12_NoLeadingCaret ==
  (/\ call.op = "encode"
   /\ ~call.thrown
   /\ ~Top.isNegated
   /\ Top.type # "negated"
   /\ call.value[1].pattern[1] = "[")
    => call.value[1].pattern[2] # "^"

====
